---- MODULE Spec2Model ----
(***************************************************************************)
(* Model of get-device-info: the DeviceDetector classifiers                *)
(* (src/device-detector.js lines 1-96) and the DeviceHardwareInfo probes   *)
(* (lines 99-247).                                                         *)
(*                                                                         *)
(* JavaScript strings that a regular expression is tested against are      *)
(* sequences of one-character strings, so that RegExp.prototype.test is    *)
(* a real substring search (case-sensitive or not, as the flag says).      *)
(* JavaScript values of mixed type (a number or a sentinel string, a       *)
(* record or a sentinel string) are tagged records: Str, Num, Bool, Obj,   *)
(* Undef.                                                                  *)
(***************************************************************************)
EXTENDS Integers, Sequences, FiniteSets, TLC

VARIABLES
    nav,        \* the host's navigator object
    win,        \* the host's window object
    det,        \* the detector's own fields (this.userAgent, ...)
    ret,        \* what the last call on the detector returned
    history,    \* the classifier calls made since the host last changed, when tracked
    track,      \* whether history is recorded
    fmtIn,      \* formatBytes: the argument
    fmtOut,     \* formatBytes: the string returned
    pc,         \* getHardwareInfo: where the call stands
    basicInfo,  \* getHardwareInfo: const basicInfo
    hardware,   \* getHardwareInfo: the hardware literal, as far as it is evaluated
    probes,     \* per probe, how its promise settled
    pending,    \* the host calls that are outstanding
    issued,     \* the probes started, in order
    hostDid,    \* per probe, what the host did when asked
    outcome     \* how the promise of getHardwareInfo settled

hwvars == <<pc, basicInfo, hardware, probes, pending, issued, hostDid, outcome>>
vars == <<nav, win, det, ret, history, track, fmtIn, fmtOut, hwvars>>

----------------------------------------------------------------------------
(* Bounds *)

\* A user agent is made of at most MaxFrags product tokens.
MaxFrags == 2
\* navigator.maxTouchPoints ranges over 0..MaxTouch (or is undefined).
MaxTouch == 1
\* At most MaxCalls classifier calls are recorded between two host changes.
MaxCalls == 3

----------------------------------------------------------------------------
(* Tagged JavaScript values *)

Undef == [kind |-> "undefined"]
Str(t) == [kind |-> "string", text |-> t]
Num(n) == [kind |-> "number", n |-> n]
Bool(b) == [kind |-> "boolean", b |-> b]
Obj(r) == [kind |-> "object", fields |-> r]

----------------------------------------------------------------------------
(* Character strings *)

UpperCase == <<"A","B","C","D","E","F","G","H","I","J","K","L","M",
               "N","O","P","Q","R","S","T","U","V","W","X","Y","Z">>
LowerCase == <<"a","b","c","d","e","f","g","h","i","j","k","l","m",
               "n","o","p","q","r","s","t","u","v","w","x","y","z">>

ToLower(c) ==
    IF \E i \in 1..26 : UpperCase[i] = c
    THEN LowerCase[CHOOSE i \in 1..26 : UpperCase[i] = c]
    ELSE c

\* The characters user agents and vendors are written in, case-folded once.
CharSet ==
    {UpperCase[i] : i \in 1..26} \cup {LowerCase[i] : i \in 1..26} \cup {" ", ".", ","}
FoldTable == [c \in CharSet |-> ToLower(c)]

LowerStr(s) == [i \in 1..Len(s) |-> FoldTable[s[i]]]

\* s contains p as a substring.
Contains(s, p) ==
    \E k \in 0..(Len(s) - Len(p)) : \A j \in 1..Len(p) : s[k + j] = p[j]

\* /a|b|c/.test(s) and /a|b|c/i.test(s): alts is the set of alternatives, all
\* literal. The literals carry no g or y flag, so test always searches from 0.
RegExpTest(alts, ignoreCase, s) ==
    IF ignoreCase
    THEN LET folded == LowerStr(s) IN \E p \in alts : Contains(folded, LowerStr(p))
    ELSE \E p \in alts : Contains(s, p)

T_Android == <<"A","n","d","r","o","i","d">>
T_android == <<"a","n","d","r","o","i","d">>
T_webOS == <<"w","e","b","O","S">>
T_iPhone == <<"i","P","h","o","n","e">>
T_iPod == <<"i","P","o","d">>
T_iPad == <<"i","P","a","d">>
T_BlackBerry == <<"B","l","a","c","k","B","e","r","r","y">>
T_IEMobile == <<"I","E","M","o","b","i","l","e">>
T_OperaMini == <<"O","p","e","r","a"," ","M","i","n","i">>
T_Mobile == <<"M","o","b","i","l","e">>
T_Windows == <<"W","i","n","d","o","w","s">>
T_MacOSX == <<"M","a","c"," ","O","S"," ","X">>
T_Linux == <<"L","i","n","u","x">>
T_Chrome == <<"C","h","r","o","m","e">>
T_Safari == <<"S","a","f","a","r","i">>
T_Firefox == <<"F","i","r","e","f","o","x">>
T_OPR == <<"O","P","R">>
T_Edg == <<"E","d","g">>
T_Trident == <<"T","r","i","d","e","n","t">>
T_GoogleInc == <<"G","o","o","g","l","e"," ","I","n","c">>
T_AppleComputer == <<"A","p","p","l","e"," ","C","o","m","p","u","t","e","r">>
T_undefined == <<"u","n","d","e","f","i","n","e","d">>

\* The viewport width from which a touch device counts as a tablet.
TabletMinWidth == 768

----------------------------------------------------------------------------
(* DeviceDetector *)

\* constructor(): the fields captured from navigator.
DeviceDetector(n) ==
    [userAgent |-> n.userAgent,
     platform |-> n.platform,
     maxTouchPoints |-> IF n.maxTouchPoints.kind = "number" /\ n.maxTouchPoints.n # 0
                        THEN n.maxTouchPoints.n ELSE 0,
     vendor |-> n.vendor]

\* String(v) as RegExp.prototype.test coerces its argument.
TestArg(v) == IF v.kind = "undefined" THEN T_undefined ELSE v.chars

isMobile(d) ==
    RegExpTest({T_Android, T_webOS, T_iPhone, T_iPod, T_BlackBerry, T_IEMobile,
                T_OperaMini}, TRUE, d.userAgent)

\* isTablet with the width compared by > where the code has >=.
isTablet_strictWidth(d, w) ==
    \/ /\ RegExpTest({T_iPad, T_Android}, TRUE, d.userAgent)
       /\ ~RegExpTest({T_Mobile}, TRUE, d.userAgent)
    \/ /\ d.maxTouchPoints > 0
       /\ w.innerWidth > TabletMinWidth

isTablet(d, w) ==
    \/ /\ RegExpTest({T_iPad, T_Android}, TRUE, d.userAgent)
       /\ ~RegExpTest({T_Mobile}, TRUE, d.userAgent)
    \/ /\ d.maxTouchPoints > 0
       /\ w.innerWidth >= TabletMinWidth

\* isDesktop with || where the code has &&.
isDesktop_either(d, w) == ~isMobile(d) \/ ~isTablet(d, w)

isDesktop(d, w) == ~isMobile(d) /\ ~isTablet(d, w)

\* getDeviceType with the mobile test made before the tablet test.
getDeviceType_mobileFirst(d, w) ==
    IF isMobile(d) THEN "mobile"
    ELSE IF isTablet(d, w) THEN "tablet"
    ELSE "desktop"

getDeviceType(d, w) ==
    IF isTablet(d, w) THEN "tablet"
    ELSE IF isMobile(d) THEN "mobile"
    ELSE "desktop"

\* Object.keys(o).find(key => o[key]) || 'Unknown': o is the literal's
\* properties in insertion order, as <<name, value>> pairs.
FirstKey(o) ==
    IF \E i \in 1..Len(o) : o[i][2]
    THEN o[CHOOSE i \in 1..Len(o) : o[i][2] /\ \A j \in 1..(i - 1) : ~o[j][2]][1]
    ELSE "Unknown"

\* getOS with the iOS property written before the MacOS property.
getOS_iOSFirst(d) ==
    FirstKey(<< <<"Windows", RegExpTest({T_Windows}, FALSE, d.userAgent)>>,
                <<"iOS", RegExpTest({T_iPhone, T_iPad, T_iPod}, FALSE, d.userAgent)>>,
                <<"MacOS", RegExpTest({T_MacOSX}, FALSE, d.userAgent)>>,
                <<"Android", RegExpTest({T_Android}, FALSE, d.userAgent)>>,
                <<"Linux", RegExpTest({T_Linux}, FALSE, d.userAgent)>> >>)

getOS(d) ==
    FirstKey(<< <<"Windows", RegExpTest({T_Windows}, FALSE, d.userAgent)>>,
                <<"MacOS", RegExpTest({T_MacOSX}, FALSE, d.userAgent)>>,
                <<"iOS", RegExpTest({T_iPhone, T_iPad, T_iPod}, FALSE, d.userAgent)>>,
                <<"Android", RegExpTest({T_Android}, FALSE, d.userAgent)>>,
                <<"Linux", RegExpTest({T_Linux}, FALSE, d.userAgent)>> >>)

getBrowser(d) ==
    FirstKey(<< <<"Chrome", RegExpTest({T_Chrome}, FALSE, d.userAgent)
                            /\ RegExpTest({T_GoogleInc}, FALSE, TestArg(d.vendor))>>,
                <<"Safari", RegExpTest({T_Safari}, FALSE, d.userAgent)
                            /\ RegExpTest({T_AppleComputer}, FALSE, TestArg(d.vendor))>>,
                <<"Firefox", RegExpTest({T_Firefox}, FALSE, d.userAgent)>>,
                <<"Opera", RegExpTest({T_OPR}, FALSE, d.userAgent)>>,
                <<"Edge", RegExpTest({T_Edg}, FALSE, d.userAgent)>>,
                <<"IE", RegExpTest({T_Trident}, FALSE, d.userAgent)>> >>)

hasTouch(d, w) == w.ontouchstart \/ d.maxTouchPoints > 0

\* How a call ends: with a value, or by throwing.
Throw == [threw |-> TRUE]
Return(v) == [threw |-> FALSE, value |-> v]

\* v || alt
OrElse(v, alt) ==
    IF \/ v.kind = "undefined"
       \/ (v.kind = "number" /\ v.n = 0)
       \/ (v.kind = "string" /\ v.text = "")
    THEN alt ELSE v

\* Reading a property of window.screen throws a TypeError when window.screen
\* is undefined.
getScreenInfo(w) ==
    IF ~w.screen.present THEN Throw
    ELSE Return(Obj([width |-> w.screen.width,
                     height |-> w.screen.height,
                     availWidth |-> w.screen.availWidth,
                     availHeight |-> w.screen.availHeight,
                     colorDepth |-> w.screen.colorDepth,
                     pixelRatio |-> OrElse(w.devicePixelRatio, Num(1)),
                     viewportWidth |-> Num(w.innerWidth),
                     viewportHeight |-> Num(w.innerHeight)]))

getOrientation(w) ==
    IF ~w.screen.present THEN Throw
    ELSE IF w.screen.orientation.kind # "undefined"
         THEN Return(w.screen.orientation.fields.type)
         ELSE Return(Str(IF w.innerHeight > w.innerWidth THEN "portrait" ELSE "landscape"))

getConnectionType(n) ==
    LET connection == OrElse(n.connection, OrElse(n.mozConnection, n.webkitConnection))
    IN  IF connection.kind # "undefined"
        THEN connection.fields.effectiveType
        ELSE Str("unknown")

\* The object literal's properties are evaluated in order; the first that
\* throws ends the call. Nothing before getScreenInfo can throw.
getDeviceInfo(d, w, n) ==
    IF getScreenInfo(w).threw \/ getOrientation(w).threw THEN Throw
    ELSE Return([deviceType |-> Str(getDeviceType(d, w)),
                 operatingSystem |-> Str(getOS(d)),
                 browser |-> Str(getBrowser(d)),
                 isMobile |-> Bool(isMobile(d)),
                 isTablet |-> Bool(isTablet(d, w)),
                 isDesktop |-> Bool(isDesktop(d, w)),
                 hasTouch |-> Bool(hasTouch(d, w)),
                 screenInfo |-> getScreenInfo(w).value,
                 orientation |-> getOrientation(w).value,
                 connectionType |-> getConnectionType(n)])

----------------------------------------------------------------------------
(* Hosts *)

Space == <<" ">>

RECURSIVE Join(_)
Join(fs) ==
    IF Len(fs) = 0 THEN <<>>
    ELSE IF Len(fs) = 1 THEN fs[1]
    ELSE fs[1] \o Space \o Join(Tail(fs))

\* The tokens the device-type patterns look at, and those the OS and browser
\* patterns look at; T_android differs from the patterns in case only.
DeviceFragments ==
    {T_iPad, T_Android, T_android, T_Mobile, T_iPhone, T_IEMobile, T_webOS, T_Windows}
NameFragments ==
    {T_Windows, T_MacOSX, T_iPhone, T_iPad, T_Android, T_android, T_Linux,
     T_Chrome, T_Safari, T_Firefox, T_OPR, T_Edg, T_Trident}

UserAgentsOf(frags, n) == {Join(fs) : fs \in UNION {[1..m -> frags] : m \in 0..n}}

Chars(cs) == [kind |-> "string", chars |-> cs]
Vendors == {Chars(T_GoogleInc \o <<".">>), Chars(T_AppleComputer \o <<",">>), Undef}

TouchPointValues == {Undef} \cup {Num(t) : t \in 0..MaxTouch}
Widths == {TabletMinWidth - 1, TabletMinWidth, 2 * TabletMinWidth}

\* window.screen; present is FALSE on a host that has no window.screen.
Screen == [present |-> TRUE, width |-> Num(1920), height |-> Num(1080),
           availWidth |-> Num(1920), availHeight |-> Num(1040),
           colorDepth |-> Num(24),
           orientation |-> Obj([type |-> Str("landscape-primary")])]

Window(width) ==
    [innerWidth |-> width, innerHeight |-> 800, ontouchstart |-> FALSE,
     devicePixelRatio |-> Num(2), screen |-> Screen,
     performance |-> "timing", webgl |-> "ok"]

Navigator(ua, vendor, mtp) ==
    [userAgent |-> ua, platform |-> "MacIntel", maxTouchPoints |-> mtp,
     vendor |-> vendor,
     connection |-> Obj([effectiveType |-> Str("4g")]),
     mozConnection |-> Undef, webkitConnection |-> Undef,
     hardwareConcurrency |-> Num(8), deviceMemory |-> Num(8),
     getBattery |-> TRUE, storage |-> "estimate", mediaCapabilities |-> TRUE]

----------------------------------------------------------------------------
(* The detector, called by a page *)

NoCall == [op |-> "none"]

\* The recorded history after a classifier call.
Recorded(op, value) == IF track THEN Append(history, <<op, value>>) ELSE history
MayCall == track => Len(history) < MaxCalls

FmtIdle == fmtIn = Undef /\ fmtOut = ""

Probes == {"gpu", "battery", "storage", "media"}
NotSettled == [state |-> "none"]
Fulfilled(v) == [state |-> "fulfilled", value |-> v]
Rejected == [state |-> "rejected"]

\* No getHardwareInfo call has been made.
HwIdle ==
    /\ pc = <<"idle">>
    /\ basicInfo = Undef
    /\ hardware = <<>>
    /\ probes = [p \in Probes |-> NotSettled]
    /\ pending = {}
    /\ issued = <<>>
    /\ hostDid = [p \in Probes |-> "none"]
    /\ outcome = NotSettled

InitDetector(uas, vendors, touches, widths) ==
    /\ \E ua \in uas, v \in vendors, mtp \in touches : nav = Navigator(ua, v, mtp)
    /\ \E width \in widths : win = Window(width)
    /\ det = DeviceDetector(nav)
    /\ ret = NoCall
    /\ history = <<>>
    /\ FmtIdle
    /\ HwIdle

\* The device type, over user agents, touch points and viewport widths.
Init ==
    /\ InitDetector(UserAgentsOf(DeviceFragments, MaxFrags), {Chars(T_GoogleInc)},
                    TouchPointValues, Widths)
    /\ track = FALSE

\* getDeviceType with an assignment (this.maxTouchPoints = 0) where isTablet
\* compares.
CallGetDeviceType_assigns ==
    /\ MayCall
    /\ det' = [det EXCEPT !.maxTouchPoints = 0]
    /\ ret' = [op |-> "getDeviceType", value |-> getDeviceType(det', win)]
    /\ history' = Recorded("getDeviceType", getDeviceType(det', win))
    /\ UNCHANGED <<nav, win, track, fmtIn, fmtOut, hwvars>>

CallGetDeviceType ==
    /\ MayCall
    /\ ret' = [op |-> "getDeviceType", value |-> getDeviceType(det, win)]
    /\ history' = Recorded("getDeviceType", getDeviceType(det, win))
    /\ UNCHANGED <<nav, win, det, track, fmtIn, fmtOut, hwvars>>

CallGetOS ==
    /\ MayCall
    /\ ret' = [op |-> "getOS", value |-> getOS(det)]
    /\ history' = Recorded("getOS", getOS(det))
    /\ UNCHANGED <<nav, win, det, track, fmtIn, fmtOut, hwvars>>

CallGetBrowser ==
    /\ MayCall
    /\ ret' = [op |-> "getBrowser", value |-> getBrowser(det)]
    /\ history' = Recorded("getBrowser", getBrowser(det))
    /\ UNCHANGED <<nav, win, det, track, fmtIn, fmtOut, hwvars>>

CallGetDeviceInfo ==
    /\ ~track
    /\ ret' = [op |-> "getDeviceInfo", value |-> getDeviceInfo(det, win, nav)]
    /\ UNCHANGED <<nav, win, det, history, track, fmtIn, fmtOut, hwvars>>

\* The host changes: the viewport is resized.
Resize ==
    /\ \E width \in Widths \ {win.innerWidth} :
            win' = [win EXCEPT !.innerWidth = width]
    /\ ret' = NoCall
    /\ history' = <<>>
    /\ UNCHANGED <<nav, det, track, fmtIn, fmtOut, hwvars>>

Next ==
    \/ CallGetDeviceType
    \/ CallGetDeviceInfo
    \/ Resize

Spec == Init /\ [][Next]_vars

\* The OS and browser names, over user agents and vendors.
InitNames ==
    /\ InitDetector(UserAgentsOf(NameFragments, MaxFrags), Vendors, {Num(0)},
                    {TabletMinWidth})
    /\ track = FALSE

NextNames ==
    \/ CallGetOS
    \/ CallGetBrowser

SpecNames == InitNames /\ [][NextNames]_vars

\* Repeated classifier calls on one detector, recorded.
InitIdem ==
    /\ InitDetector(UserAgentsOf(DeviceFragments \cup NameFragments, 1), Vendors,
                    TouchPointValues, Widths)
    /\ track = TRUE

NextIdem ==
    \/ CallGetDeviceType
    \/ CallGetOS
    \/ CallGetBrowser
    \/ Resize

SpecIdem == InitIdem /\ [][NextIdem]_vars

----------------------------------------------------------------------------
(* DeviceHardwareInfo.formatBytes *)

\* A byte count is a JavaScript number holding a non-negative integer below
\* 2^53 (so the double is exact), written in base k, least significant limb
\* first, as many limbs as there are units plus one.
k == 1024
sizes == <<"B", "KB", "MB", "GB", "TB">>
FixedDigits == 2
NumLimbs == Len(sizes) + 1

\* The limb above the last unit is at most MaxTopLimb (below 8: under 2^53).
MaxTopLimb == 1

IsZero(b) == \A j \in 1..Len(b) : b[j] = 0
TopLimb(b) == CHOOSE j \in 1..Len(b) : b[j] # 0 /\ \A m \in (j + 1)..Len(b) : b[m] = 0

\* Math.floor(Math.log(bytes) / Math.log(k)). The quotient of the two rounded
\* logarithms is the exact floor(log_k bytes) for every integer below 2^53
\* but those within 3 of k^5 from below: there log(bytes) rounds to the double
\* of log(k^5), and whether the quotient comes out as 5 or just under it is
\* the engine's rounding; both are outcomes.
MathLogIndexes(b) ==
    LET exact == TopLimb(b) - 1
        nearPower == /\ TopLimb(b) = Len(sizes)
                     /\ \A j \in 2..Len(sizes) : b[j] = k - 1
                     /\ b[1] >= k - 3
    IN  IF nearPower THEN {exact, exact + 1} ELSE {exact}

\* (bytes / Math.pow(k, i)).toFixed(2), as the integer number of hundredths.
\* The division by a power of two is exact, and toFixed rounds the exact value
\* half up: the carry out of limb i of 100 * bytes + k^i / 2.
RECURSIVE RoundCarry(_, _, _, _)
RoundCarry(b, i, j, c) ==
    IF j > i THEN c
    ELSE RoundCarry(b, i, j + 1,
                    (10 ^ FixedDigits * b[j] + c + (IF j = i THEN k \div 2 ELSE 0)) \div k)

RECURSIVE WholePart(_, _)
WholePart(b, j) == IF j > Len(b) THEN 0 ELSE b[j] + k * WholePart(b, j + 1)

Hundredths(b, i) == 10 ^ FixedDigits * WholePart(b, i + 1) + RoundCarry(b, i, 1, 0)

\* parseFloat(fixed) + '': the decimal without trailing zeros.
NumberText(h) ==
    LET whole == h \div 100
        frac == h % 100
    IN  IF frac = 0 THEN ToString(whole)
        ELSE IF frac % 10 = 0 THEN ToString(whole) \o "." \o ToString(frac \div 10)
        ELSE IF frac < 10 THEN ToString(whole) \o ".0" \o ToString(frac)
        ELSE ToString(whole) \o "." \o ToString(frac)

\* sizes[i]: undefined, concatenated as "undefined", past the end of the array.
UnitText(i) == IF i + 1 \in DOMAIN sizes THEN sizes[i + 1] ELSE "undefined"

FormatAt(b, i) == NumberText(Hundredths(b, i)) \o " " \o UnitText(i)

\* The strings formatBytes(bytes) can return.
formatBytes(bytes) ==
    IF bytes.kind = "undefined" \/ IsZero(bytes.limbs) THEN {"0 B"}
    ELSE {FormatAt(bytes.limbs, i) : i \in MathLogIndexes(bytes.limbs)}

Bytes(limbs) == [kind |-> "number", limbs |-> limbs]

LimbValues == {0, 1, k \div 2, k - 1}
ByteCounts ==
    {Bytes(low \o <<top>>) : low \in [1..Len(sizes) -> LimbValues], top \in 0..MaxTopLimb}

FixedHost ==
    /\ nav = Navigator(T_Chrome, Chars(T_GoogleInc), Num(0))
    /\ win = Window(TabletMinWidth)
    /\ det = DeviceDetector(nav)
    /\ ret = NoCall
    /\ history = <<>>
    /\ track = FALSE

InitFmt ==
    /\ FixedHost
    /\ fmtIn \in ByteCounts \cup {Undef}
    /\ fmtOut = ""
    /\ HwIdle

CallFormatBytes ==
    /\ fmtOut = ""
    /\ fmtOut' \in formatBytes(fmtIn)
    /\ UNCHANGED <<nav, win, det, ret, history, track, fmtIn, hwvars>>

NextFmt == CallFormatBytes

SpecFmt == InitFmt /\ [][NextFmt]_vars

----------------------------------------------------------------------------
(* DeviceHardwareInfo: the probes *)

\* What a host call did: it threw synchronously, its promise was rejected,
\* or its promise was resolved with a value.
HostThrew == [how |-> "threw"]
HostRejected == [how |-> "rejected"]
HostResolved(v) == [how |-> "resolved", value |-> v]

\* getGPUInfo: the whole body is inside try. webgl says what the canvas
\* gives: no context, a context without the debug extension, a context with
\* it, or an exception from one of the calls.
getGPUInfo(w) ==
    CASE w.webgl = "throws" -> Fulfilled(Str("Error getting GPU info"))
      [] w.webgl = "nogl" -> Fulfilled(Str("WebGL not supported"))
      [] w.webgl = "noext" -> Fulfilled(Str("GPU information not available"))
      [] w.webgl = "ok" ->
            Fulfilled(Obj([vendor |-> Str("Google Inc. (Intel)"),
                           renderer |-> Str("ANGLE (Intel)"),
                           webglVersion |-> Str("WebGL 1.0"),
                           shadingLanguageVersion |-> Str("WebGL GLSL ES 1.0"),
                           maxTextureSize |-> Num(16384)]))

\* Reading window.performance.timing throws a TypeError when
\* window.performance is undefined.
getPerformanceInfo(w, n) ==
    IF w.performance = "absent" THEN Throw
    ELSE Return(Obj([timingSupport |-> Bool(w.performance = "timing"),
                     navigationStart |-> IF w.performance = "timing"
                                         THEN Num(1700000000)
                                         ELSE Str("Not available"),
                     userAgent |-> n.userAgent,
                     platform |-> Str(n.platform)]))

Infinity == [kind |-> "infinity"]
SecondsText(t, whenInfinite) ==
    IF t.kind = "infinity" THEN whenInfinite ELSE ToString(t.n) \o " seconds"

\* getBatteryInfo with the catch clause left out: a rejection propagates.
getBatteryInfo_noCatch(n, h) ==
    IF ~n.getBattery THEN Fulfilled(Str("Battery API not supported"))
    ELSE IF h.how # "resolved" THEN Rejected
    ELSE Fulfilled(Obj([charging |-> Bool(h.value.charging),
                        level |-> Str(ToString(h.value.level100) \o "%"),
                        chargingTime |-> Str(SecondsText(h.value.chargingTime, "Not charging")),
                        dischargingTime |-> Str(SecondsText(h.value.dischargingTime, "Unknown"))]))

\* getBatteryInfo, given what navigator.getBattery() did (h is not read when
\* the host has no getBattery). level100 is Math.round(battery.level * 100).
getBatteryInfo(n, h) ==
    IF ~n.getBattery THEN Fulfilled(Str("Battery API not supported"))
    ELSE IF h.how # "resolved" THEN Fulfilled(Str("Battery information not available"))
    ELSE Fulfilled(Obj([charging |-> Bool(h.value.charging),
                        level |-> Str(ToString(h.value.level100) \o "%"),
                        chargingTime |-> Str(SecondsText(h.value.chargingTime, "Not charging")),
                        dischargingTime |-> Str(SecondsText(h.value.dischargingTime, "Unknown"))]))

\* Math.round((estimate.usage / estimate.quota) * 100) + '%', for byte counts
\* below k^2.
PercentText(est) ==
    IF est.usage.kind = "undefined" \/ est.quota.kind = "undefined" THEN "NaN%"
    ELSE LET u == WholePart(est.usage.limbs, 1)
             q == WholePart(est.quota.limbs, 1)
         IN  IF q = 0 THEN (IF u = 0 THEN "NaN%" ELSE "Infinity%")
             ELSE ToString((200 * u + q) \div (2 * q)) \o "%"

\* getStorageInfo, given what navigator.storage.estimate() did: the values
\* its promise can settle with.
getStorageInfo(n, h) ==
    IF n.storage # "estimate" THEN {Fulfilled(Str("Storage API not supported"))}
    ELSE IF h.how # "resolved" THEN {Fulfilled(Str("Storage information not available"))}
    ELSE {Fulfilled(Obj([quotaBytes |-> Str(q),
                         usageBytes |-> Str(u),
                         percentageUsed |-> Str(PercentText(h.value))])) :
             q \in formatBytes(h.value.quota), u \in formatBytes(h.value.usage)}

\* getMediaCapabilities, given what mediaCapabilities.decodingInfo() did.
getMediaCapabilities(n, h) ==
    IF ~n.mediaCapabilities THEN Fulfilled(Str("Media Capabilities API not supported"))
    ELSE IF h.how # "resolved"
         THEN Fulfilled(Str("Media capabilities information not available"))
    ELSE Fulfilled(Obj([smooth |-> Bool(h.value.smooth),
                        powerEfficient |-> Bool(h.value.powerEfficient),
                        supported |-> Bool(h.value.supported)]))

\* What the host resolves each call with.
BatteryManagers ==
    {[charging |-> TRUE, level100 |-> 100, chargingTime |-> Num(0),
      dischargingTime |-> Infinity],
     [charging |-> FALSE, level100 |-> 50, chargingTime |-> Infinity,
      dischargingTime |-> Num(3600)]}
SmallBytes(b0, b1) == Bytes(<<b0, b1>> \o [j \in 1..(NumLimbs - 2) |-> 0])
StorageEstimates ==
    {[quota |-> SmallBytes(0, k \div 2), usage |-> SmallBytes(k \div 2, 1)],
     [quota |-> Undef, usage |-> Undef]}
DecodingInfos ==
    {[smooth |-> TRUE, powerEfficient |-> FALSE, supported |-> TRUE]}

HostValues(p) ==
    CASE p = "battery" -> BatteryManagers
      [] p = "storage" -> StorageEstimates
      [] p = "media" -> DecodingInfos

\* Whether the host has what probe p checks for before it calls.
Supported(p, n) ==
    CASE p = "battery" -> n.getBattery
      [] p = "storage" -> n.storage = "estimate"
      [] p = "media" -> n.mediaCapabilities

\* The values probe p's promise can settle with, the host having done h.
Settle(p, n, h) ==
    CASE p = "battery" -> {getBatteryInfo(n, h)}
      [] p = "storage" -> getStorageInfo(n, h)
      [] p = "media" -> {getMediaCapabilities(n, h)}

----------------------------------------------------------------------------
(* DeviceHardwareInfo.getHardwareInfo *)

\* A property of an object literal: key: value.
Put_onlyObjects(o, key, v) == IF v.kind = "string" THEN o ELSE (key :> v) @@ o

Put(o, key, v) == (key :> v) @@ o

\* The promise of getHardwareInfo is rejected: the call is over.
Reject ==
    /\ outcome' = Rejected
    /\ pc' = <<"done">>

\* An async probe is called. An unsupported capability settles its promise
\* at once; otherwise the host call is made inside try: it throws, or it
\* returns a promise that is outstanding until the host settles it.
StartProbe(p) ==
    /\ issued' = Append(issued, p)
    /\ IF ~Supported(p, nav)
       THEN /\ probes' \in {[probes EXCEPT ![p] = v] : v \in Settle(p, nav, HostThrew)}
            /\ hostDid' = [hostDid EXCEPT ![p] = "absent"]
            /\ pending' = pending
            /\ pc' = <<"await", p>>
       ELSE \/ /\ probes' \in {[probes EXCEPT ![p] = v] : v \in Settle(p, nav, HostThrew)}
               /\ hostDid' = [hostDid EXCEPT ![p] = "threw"]
               /\ pending' = pending
               /\ pc' = <<"await", p>>
            \/ /\ probes' = probes
               /\ hostDid' = [hostDid EXCEPT ![p] = "called"]
               /\ pending' = pending \cup {p}
               /\ pc' = <<"host", p>>

\* getHardwareInfo() up to its first await: basicInfo, the two navigator
\* reads, and the call of getGPUInfo, whose body is synchronous.
CallGetHardwareInfo ==
    /\ pc = <<"idle">>
    /\ LET info == getDeviceInfo(det, win, nav)
       IN  IF info.threw
           THEN /\ Reject
                /\ UNCHANGED <<basicInfo, hardware, probes, pending, issued, hostDid>>
           ELSE /\ basicInfo' = info.value
                /\ hardware' =
                       Put(Put(<<>>, "logicalProcessors",
                               OrElse(nav.hardwareConcurrency, Str("Not available"))),
                           "deviceMemory",
                           IF OrElse(nav.deviceMemory, Undef).kind # "undefined"
                           THEN Str(ToString(nav.deviceMemory.n) \o " GB")
                           ELSE Str("Not available"))
                /\ probes' = [probes EXCEPT !["gpu"] = getGPUInfo(win)]
                /\ hostDid' = [hostDid EXCEPT !["gpu"] = win.webgl]
                /\ issued' = Append(issued, "gpu")
                /\ pc' = <<"await", "gpu">>
                /\ UNCHANGED <<pending, outcome>>
    /\ UNCHANGED <<nav, win, det, ret, history, track, fmtIn, fmtOut>>

\* await this.getGPUInfo() resumes; performance is evaluated; getBatteryInfo
\* is called.
ResumeAfterGPU ==
    /\ pc = <<"await", "gpu">>
    /\ IF probes["gpu"].state = "rejected"
       THEN /\ Reject
            /\ UNCHANGED <<basicInfo, hardware, probes, pending, issued, hostDid>>
       ELSE LET perf == getPerformanceInfo(win, nav)
            IN  IF perf.threw
                THEN /\ Reject
                     /\ hardware' = Put(hardware, "gpu", probes["gpu"].value)
                     /\ UNCHANGED <<basicInfo, probes, pending, issued, hostDid>>
                ELSE /\ hardware' = Put(Put(hardware, "gpu", probes["gpu"].value),
                                        "performance", perf.value)
                     /\ StartProbe("battery")
                     /\ UNCHANGED <<basicInfo, outcome>>
    /\ UNCHANGED <<nav, win, det, ret, history, track, fmtIn, fmtOut>>

\* await this.getBatteryInfo() resumes; getStorageInfo is called.
ResumeAfterBattery ==
    /\ pc = <<"await", "battery">>
    /\ IF probes["battery"].state = "rejected"
       THEN /\ Reject
            /\ UNCHANGED <<basicInfo, hardware, probes, pending, issued, hostDid>>
       ELSE /\ hardware' = Put(hardware, "battery", probes["battery"].value)
            /\ StartProbe("storage")
            /\ UNCHANGED <<basicInfo, outcome>>
    /\ UNCHANGED <<nav, win, det, ret, history, track, fmtIn, fmtOut>>

\* await this.getStorageInfo() resumes; getMediaCapabilities is called.
ResumeAfterStorage ==
    /\ pc = <<"await", "storage">>
    /\ IF probes["storage"].state = "rejected"
       THEN /\ Reject
            /\ UNCHANGED <<basicInfo, hardware, probes, pending, issued, hostDid>>
       ELSE /\ hardware' = Put(hardware, "storage", probes["storage"].value)
            /\ StartProbe("media")
            /\ UNCHANGED <<basicInfo, outcome>>
    /\ UNCHANGED <<nav, win, det, ret, history, track, fmtIn, fmtOut>>

\* await this.getMediaCapabilities() resumes; the record is returned.
ResumeAfterMedia ==
    /\ pc = <<"await", "media">>
    /\ IF probes["media"].state = "rejected"
       THEN /\ Reject
            /\ UNCHANGED hardware
       ELSE /\ hardware' = Put(hardware, "mediaCapabilities", probes["media"].value)
            /\ outcome' = Fulfilled(Put(basicInfo, "hardware", Obj(hardware')))
            /\ pc' = <<"done">>
    /\ UNCHANGED <<basicInfo, probes, pending, issued, hostDid>>
    /\ UNCHANGED <<nav, win, det, ret, history, track, fmtIn, fmtOut>>

\* The host settles the outstanding call of probe p: it resolves or rejects
\* the promise, and the probe's own promise settles in turn.
HostSettles ==
    /\ \E p \in pending :
        /\ pc = <<"host", p>>
        /\ \E h \in {HostRejected} \cup {HostResolved(v) : v \in HostValues(p)} :
            /\ probes' \in {[probes EXCEPT ![p] = v] : v \in Settle(p, nav, h)}
            /\ hostDid' = [hostDid EXCEPT ![p] = h.how]
        /\ pending' = pending \ {p}
        /\ pc' = <<"await", p>>
    /\ UNCHANGED <<basicInfo, hardware, issued, outcome>>
    /\ UNCHANGED <<nav, win, det, ret, history, track, fmtIn, fmtOut>>

HwScreens ==
    {Screen, [Screen EXCEPT !.orientation = Undef], [Screen EXCEPT !.present = FALSE]}

InitHW ==
    /\ \E ua \in {T_iPad, T_Windows}, conn \in {Undef, Obj([effectiveType |-> Str("4g")])},
          cores \in {Undef, Num(8)}, battery \in BOOLEAN, media \in BOOLEAN,
          storage \in {"absent", "noEstimate", "estimate"} :
            nav = [Navigator(ua, Chars(T_GoogleInc), Num(MaxTouch))
                       EXCEPT !.connection = conn, !.hardwareConcurrency = cores,
                              !.deviceMemory = cores, !.getBattery = battery,
                              !.storage = storage, !.mediaCapabilities = media]
    /\ \E screen \in HwScreens, perf \in {"absent", "noTiming", "timing"},
          webgl \in {"nogl", "noext", "ok", "throws"} :
            win = [Window(TabletMinWidth)
                       EXCEPT !.screen = screen, !.performance = perf, !.webgl = webgl]
    /\ det = DeviceDetector(nav)
    /\ ret = NoCall
    /\ history = <<>>
    /\ track = FALSE
    /\ FmtIdle
    /\ HwIdle

NextHW ==
    \/ CallGetHardwareInfo
    \/ ResumeAfterGPU
    \/ ResumeAfterBattery
    \/ ResumeAfterStorage
    \/ ResumeAfterMedia
    \/ HostSettles

SpecHW == InitHW /\ [][NextHW]_vars

----------------------------------------------------------------------------
(* What the claims say, in the claims' own terms: whether a token occurs in  *)
(* the host's user agent, read off the string itself.                        *)

Occurs(tokens, s) ==
    \E p \in tokens : \E i \in 1..(Len(s) - Len(p) + 1) :
        SubSeq(s, i, i + Len(p) - 1) = p
OccursCI(tokens, s) ==
    LET folded == LowerStr(s)
    IN  \E p \in tokens : \E i \in 1..(Len(s) - Len(p) + 1) :
            SubSeq(folded, i, i + Len(p) - 1) = LowerStr(p)

HostTouchPoints == IF nav.maxTouchPoints.kind = "number" THEN nav.maxTouchPoints.n ELSE 0
HostVendor == IF nav.vendor.kind = "string" THEN nav.vendor.chars ELSE <<>>

TouchWide == HostTouchPoints > 0 /\ win.innerWidth >= 768
UATablet ==
    OccursCI({T_iPad, T_Android}, nav.userAgent) /\ ~OccursCI({T_Mobile}, nav.userAgent)
MobilePattern ==
    OccursCI({T_Android, T_webOS, T_iPhone, T_iPod, T_BlackBerry, T_IEMobile,
              T_OperaMini}, nav.userAgent)
TabletPredicate == UATablet \/ TouchWide

\* C1: getDeviceType returns 'tablet' exactly when the tablet predicate holds
\* (the user agent matches iPad|Android and not Mobile, or maxTouchPoints > 0
\* and the viewport is at least 768 wide), 'mobile' exactly when it fails and
\* the mobile pattern matches, 'desktop' exactly when neither holds.
C1_DeviceTypeTable ==
    ret.op = "getDeviceType" =>
        /\ ret.value = "tablet" <=> TabletPredicate
        /\ ret.value = "mobile" <=> (~TabletPredicate /\ MobilePattern)
        /\ ret.value = "desktop" <=> (~TabletPredicate /\ ~MobilePattern)

\* Both predicates hold and the tablet match wins, at the boundary width.
C1_Witness ==
    /\ ret.op = "getDeviceType"
    /\ ret.value = "tablet"
    /\ MobilePattern /\ ~UATablet /\ TouchWide
    /\ win.innerWidth = 768

UAMobileOnly == MobilePattern /\ ~UATablet
ByUserAgentAlone ==
    IF UATablet THEN "tablet" ELSE IF UAMobileOnly THEN "mobile" ELSE "desktop"

\* C2 as stated: whatever maxTouchPoints and the viewport width are, the
\* device type is decided by the user agent alone: 'tablet' for a tablet
\* pattern without Mobile, 'mobile' for a mobile-only pattern, 'desktop'
\* otherwise.
C2_Original ==
    ret.op = "getDeviceType" => ret.value = ByUserAgentAlone

\* C2 as amended: a tablet user agent gives 'tablet' whatever maxTouchPoints
\* and the width are; the user agent alone decides only when the host is not
\* a touch host at least 768 wide, and on such a host every user agent gives
\* 'tablet'.
C2_Amended ==
    ret.op = "getDeviceType" =>
        /\ UATablet => ret.value = "tablet"
        /\ ~TouchWide => ret.value = ByUserAgentAlone
        /\ TouchWide => ret.value = "tablet"

\* A desktop user agent on a wide touch host is classified 'tablet'.
C2_Witness ==
    /\ ret.op = "getDeviceType"
    /\ ~UATablet /\ ~MobilePattern /\ TouchWide
    /\ ret.value = "tablet"

OSWindows == Occurs({T_Windows}, nav.userAgent)
OSMac == Occurs({T_MacOSX}, nav.userAgent)
OSiOS == Occurs({T_iPhone, T_iPad, T_iPod}, nav.userAgent)
OSAndroid == Occurs({T_Android}, nav.userAgent)
OSLinux == Occurs({T_Linux}, nav.userAgent)
BrChrome == Occurs({T_Chrome}, nav.userAgent) /\ Occurs({T_GoogleInc}, HostVendor)
BrSafari == Occurs({T_Safari}, nav.userAgent) /\ Occurs({T_AppleComputer}, HostVendor)
BrFirefox == Occurs({T_Firefox}, nav.userAgent)
BrOpera == Occurs({T_OPR}, nav.userAgent)
BrEdge == Occurs({T_Edg}, nav.userAgent)
BrIE == Occurs({T_Trident}, nav.userAgent)

\* C3: getOS returns the first of Windows, MacOS, iOS, Android, Linux whose
\* predicate matches, getBrowser the first of Chrome, Safari, Firefox, Opera,
\* Edge, IE; each returns 'Unknown' exactly when none matches, and a later
\* name only when every earlier predicate fails.
C3_FirstMatch ==
    /\ ret.op = "getOS" =>
        /\ ret.value = "Windows" <=> OSWindows
        /\ ret.value = "MacOS" <=> (~OSWindows /\ OSMac)
        /\ ret.value = "iOS" <=> (~OSWindows /\ ~OSMac /\ OSiOS)
        /\ ret.value = "Android" <=> (~OSWindows /\ ~OSMac /\ ~OSiOS /\ OSAndroid)
        /\ ret.value = "Linux" <=>
               (~OSWindows /\ ~OSMac /\ ~OSiOS /\ ~OSAndroid /\ OSLinux)
        /\ ret.value = "Unknown" <=>
               (~OSWindows /\ ~OSMac /\ ~OSiOS /\ ~OSAndroid /\ ~OSLinux)
    /\ ret.op = "getBrowser" =>
        /\ ret.value = "Chrome" <=> BrChrome
        /\ ret.value = "Safari" <=> (~BrChrome /\ BrSafari)
        /\ ret.value = "Firefox" <=> (~BrChrome /\ ~BrSafari /\ BrFirefox)
        /\ ret.value = "Opera" <=> (~BrChrome /\ ~BrSafari /\ ~BrFirefox /\ BrOpera)
        /\ ret.value = "Edge" <=>
               (~BrChrome /\ ~BrSafari /\ ~BrFirefox /\ ~BrOpera /\ BrEdge)
        /\ ret.value = "IE" <=>
               (~BrChrome /\ ~BrSafari /\ ~BrFirefox /\ ~BrOpera /\ ~BrEdge /\ BrIE)
        /\ ret.value = "Unknown" <=>
               (~BrChrome /\ ~BrSafari /\ ~BrFirefox /\ ~BrOpera /\ ~BrEdge /\ ~BrIE)

\* An iPhone user agent ("iPhone ... like Mac OS X"): the iOS predicate
\* matches, and the earlier MacOS predicate decides.
C3_Witness ==
    /\ ret.op = "getOS"
    /\ OSiOS /\ OSMac /\ ~OSWindows
    /\ ret.value = "MacOS"

\* C8: on one detector with unchanged host state, repeated calls of
\* getDeviceType, getOS and getBrowser in any order return identical
\* results, and no call changes the captured fields.
C8_Idempotent ==
    /\ det = DeviceDetector(nav)
    /\ \A i, j \in 1..Len(history) :
           history[i][1] = history[j][1] => history[i][2] = history[j][2]

\* One classifier called twice with another called in between.
C8_Witness ==
    /\ det.maxTouchPoints > 0
    /\ \E i, j, m \in 1..Len(history) :
           /\ i < m /\ m < j
           /\ history[i][1] = history[j][1]
           /\ history[m][1] # history[i][1]

Flags == {"isMobile", "isTablet", "isDesktop"}
FlagOf(deviceType) ==
    CASE deviceType = "mobile" -> "isMobile"
      [] deviceType = "tablet" -> "isTablet"
      [] deviceType = "desktop" -> "isDesktop"

\* C9 as stated: in every record of getDeviceInfo exactly one of isMobile,
\* isTablet, isDesktop is true, and deviceType names that flag.
C9_Original ==
    (ret.op = "getDeviceInfo" /\ ~ret.value.threw) =>
        LET r == ret.value.value
        IN  /\ Cardinality({f \in Flags : r[f].b}) = 1
            /\ r[FlagOf(r.deviceType.text)].b

\* C9 as amended: deviceType names a flag that is true; isDesktop is true
\* exactly when the other two are false; isMobile and isTablet may both be
\* true, and deviceType is then 'tablet'.
C9_Amended ==
    (ret.op = "getDeviceInfo" /\ ~ret.value.threw) =>
        LET r == ret.value.value
        IN  /\ r[FlagOf(r.deviceType.text)].b
            /\ r.isDesktop.b <=> (~r.isMobile.b /\ ~r.isTablet.b)
            /\ r.isTablet.b => r.deviceType.text = "tablet"

\* An Android tablet: isMobile and isTablet are both true.
C9_Witness ==
    /\ ret.op = "getDeviceInfo"
    /\ ~ret.value.threw
    /\ ret.value.value.isMobile.b
    /\ ret.value.value.isTablet.b
    /\ ret.value.value.deviceType.text = "tablet"

\* The largest unit whose power of 1024 is at most the byte count.
LargestUnit(b) == IF TopLimb(b) > Len(sizes) THEN Len(sizes) - 1 ELSE TopLimb(b) - 1

\* C4: zero or absent input yields '0 B'; every positive integer byte count
\* yields '<value> <unit>' with unit one of B, KB, MB, GB, TB, the largest
\* whose power of 1024 is at most the byte count, and value the byte count
\* over that power with at most two decimals.
C4_Format ==
    fmtOut # "" =>
        IF fmtIn.kind = "undefined" \/ IsZero(fmtIn.limbs) THEN fmtOut = "0 B"
        ELSE LET u == LargestUnit(fmtIn.limbs)
             IN  fmtOut = NumberText(Hundredths(fmtIn.limbs, u)) \o " " \o sizes[u + 1]

NotSupportedText ==
    [gpu |-> "WebGL not supported",
     battery |-> "Battery API not supported",
     storage |-> "Storage API not supported",
     media |-> "Media Capabilities API not supported"]
FallbackText ==
    [gpu |-> "Error getting GPU info",
     battery |-> "Battery information not available",
     storage |-> "Storage information not available",
     media |-> "Media capabilities information not available"]

\* What the host did, in the claim's three cases.
ProbeDone(p) == hostDid[p] \notin {"none", "called"}
CapabilityAbsent(p) == hostDid[p] \in {"absent", "nogl"}
HostCallFailed(p) == hostDid[p] \in {"threw", "rejected", "throws"}

\* C5 as stated: each optional probe always resolves: to its 'not supported'
\* string when the capability is absent, to its fallback string when the host
\* call throws or rejects, and otherwise to a record.
C5_Original ==
    \A p \in Probes : ProbeDone(p) =>
        /\ probes[p].state = "fulfilled"
        /\ CapabilityAbsent(p) => probes[p].value = Str(NotSupportedText[p])
        /\ HostCallFailed(p) => probes[p].value = Str(FallbackText[p])
        /\ (~CapabilityAbsent(p) /\ ~HostCallFailed(p)) => probes[p].value.kind = "object"

\* C5 as amended: as stated, but getGPUInfo has a third string: with WebGL
\* present and the WEBGL_debug_renderer_info extension absent it resolves to
\* 'GPU information not available'; in every remaining case a probe resolves
\* to a record.
C5_Amended ==
    \A p \in Probes : ProbeDone(p) =>
        /\ probes[p].state = "fulfilled"
        /\ CapabilityAbsent(p) => probes[p].value = Str(NotSupportedText[p])
        /\ HostCallFailed(p) => probes[p].value = Str(FallbackText[p])
        /\ hostDid[p] = "noext" => probes[p].value = Str("GPU information not available")
        /\ (~CapabilityAbsent(p) /\ ~HostCallFailed(p) /\ hostDid[p] # "noext")
               => probes[p].value.kind = "object"

\* WebGL without the debug extension, and a battery promise the host rejected.
C5_Witness ==
    /\ hostDid["gpu"] = "noext"
    /\ probes["gpu"] = Fulfilled(Str("GPU information not available"))
    /\ hostDid["battery"] = "rejected"
    /\ probes["battery"] = Fulfilled(Str("Battery information not available"))

\* C6: getHardwareInfo never surfaces an error: whatever host capabilities
\* are present, absent or failing (window.performance, window.screen and the
\* connection included), its promise is never rejected, and the call ends
\* only with the whole record assembled.
C6_NeverRejects ==
    /\ outcome.state # "rejected"
    /\ pc = <<"done">> => outcome.state = "fulfilled"

TopLevelKeys ==
    {"deviceType", "operatingSystem", "browser", "isMobile", "isTablet", "isDesktop",
     "hasTouch", "screenInfo", "orientation", "connectionType", "hardware"}
HardwareKeys ==
    {"logicalProcessors", "deviceMemory", "gpu", "performance", "battery", "storage",
     "mediaCapabilities"}

\* C7: every record getHardwareInfo produces has exactly the eleven top-level
\* keys, and its hardware entry exactly the seven hardware keys, whichever
\* capabilities are present, absent or failing.
C7_FixedKeys ==
    outcome.state = "fulfilled" =>
        /\ DOMAIN outcome.value = TopLevelKeys
        /\ outcome.value["hardware"].kind = "object"
        /\ DOMAIN outcome.value["hardware"].fields = HardwareKeys

\* A record produced on a host with capabilities absent and failing.
C7_Witness ==
    /\ outcome.state = "fulfilled"
    /\ hostDid["gpu"] = "throws"
    /\ hostDid["battery"] = "absent"
    /\ hostDid["storage"] = "rejected"
    /\ nav.connection.kind = "undefined"
    /\ outcome.value["hardware"].fields["storage"] = Str("Storage information not available")

ProbeOrder == <<"gpu", "battery", "storage", "media">>

\* C10: within one getHardwareInfo call the probes are issued one at a time
\* in the order GPU, battery, storage, media capabilities, none started
\* before every earlier one has settled, at most one host call outstanding;
\* and the call settles by resolving, after the media-capabilities probe has
\* settled.
C10_Sequential ==
    /\ Cardinality(pending) <= 1
    /\ Len(issued) <= Len(ProbeOrder)
    /\ \A i \in 1..Len(issued) : issued[i] = ProbeOrder[i]
    /\ \A i \in 2..Len(issued) : probes[issued[i - 1]].state # "none"
    /\ \A p \in pending : probes[p].state = "none"
    /\ outcome.state # "none" =>
           /\ outcome.state = "fulfilled"
           /\ probes["media"].state = "fulfilled"

====
